---- MODULE Spec2Model ----
(***************************************************************************)
(* A model of paper.Selection (engine/src/view/paper-ext/Paper.Selection.js)*)
(* of the Wick Engine: the selection's transformation object, its           *)
(* visualization widget, and the four layer-aware z-order operations.       *)
(*                                                                          *)
(* The scene is a family of layers, each a sequence of item ids from the    *)
(* back (first) to the front (last).  JavaScript values held by the fields  *)
(* of a transformation object are modelled exactly for the values used      *)
(* here: rationals, +/-Infinity, NaN, null and undefined.                   *)
(***************************************************************************)
EXTENDS Integers, Sequences, FiniteSets, TLC

VARIABLES
    children,               \* the scene: layer id -> sequence of item ids, back to front
    _layer,                 \* this._layer
    _items,                 \* this._items
    _transformation,        \* this._transformation: a reference into heap
    _untransformedBounds,   \* this._untransformedBounds
    _gui,                   \* this._gui: index into widgets
    heap,                   \* object id -> transformation-shaped object
    callerRefs,             \* object ids the caller still holds
    widgets,                \* every paper.SelectionGUI built so far
    lastOp,                 \* the call that produced this state
    pre,                    \* the scene as it was when that call began
    arg,                    \* the argument of that call (a point, a number; null if none)
    thrown,                 \* the error the last call ended with, "none" if it returned
    reported,               \* what the last call reported through console.error
    run                     \* the scene before the current run of one z-order call, and
                            \* the number of calls in the run

vars == <<children, _layer, _items, _transformation, _untransformedBounds, _gui,
          heap, callerRefs, widgets, lastOp, pre, arg, thrown, reported, run>>

-----------------------------------------------------------------------------
(* Bounds of the model *)

NumItems == 4         \* scene items 1..NumItems
MaxSel == 3           \* longest selection given to the constructor or to `items`
MaxCoord == 2         \* |x|, |y| beyond which the position/origin setters are not explored
MaxDestroyCalls == 2  \* destroy() calls on one widget beyond which calls are not explored
MaxCallerObjs == 1    \* transformation objects the caller holds at one time

Items == 1..NumItems
Layers == {1, 2}      \* layer ids; paper.js ids are integers
Null == 0             \* JavaScript null where an item is expected (no sibling)

-----------------------------------------------------------------------------
(* JavaScript values.  A value is [n, d]: d > 0 is the finite number n/d in *)
(* lowest terms; d = 0 is Infinity (n = 1), -Infinity (n = -1) or NaN       *)
(* (n = 0); d = -1 is null and d = -2 is undefined.  Negative zero is not   *)
(* distinguished from zero.                                                 *)

Num(i) == [n |-> i, d |-> 1]
Infinity == [n |-> 1, d |-> 0]
NegInfinity == [n |-> -1, d |-> 0]
NaN == [n |-> 0, d |-> 0]
null == [n |-> 0, d |-> -1]
undefined == [n |-> 0, d |-> -2]

Abs(i) == IF i < 0 THEN -i ELSE i
Sign(i) == IF i < 0 THEN -1 ELSE IF i > 0 THEN 1 ELSE 0

RECURSIVE GCD(_, _)
GCD(a, b) == IF b = 0 THEN a ELSE GCD(b, a % b)

Ratio(n, d) ==
    LET g == GCD(Abs(n), Abs(d))
    IN  [n |-> (Sign(d) * n) \div g, d |-> Abs(d) \div g]

IsFinite(v) == v.d > 0
IsNaN(v) == v = NaN

ToNumber(v) == IF v = null THEN Num(0) ELSE IF v = undefined THEN NaN ELSE v

jsNeg(v) == LET a == ToNumber(v) IN [n |-> -a.n, d |-> a.d]

jsAdd(v, w) ==
    LET a == ToNumber(v)
        b == ToNumber(w)
    IN  IF IsNaN(a) \/ IsNaN(b) THEN NaN
        ELSE IF ~IsFinite(a) /\ ~IsFinite(b) THEN (IF a = b THEN a ELSE NaN)
        ELSE IF ~IsFinite(a) THEN a
        ELSE IF ~IsFinite(b) THEN b
        ELSE Ratio(a.n * b.d + b.n * a.d, a.d * b.d)

jsSub(v, w) == jsAdd(v, jsNeg(w))

jsMul(v, w) ==
    LET a == ToNumber(v)
        b == ToNumber(w)
    IN  IF IsNaN(a) \/ IsNaN(b) THEN NaN
        ELSE IF ~IsFinite(a) \/ ~IsFinite(b)
             THEN (IF a.n = 0 \/ b.n = 0 THEN NaN
                   ELSE [n |-> Sign(a.n) * Sign(b.n), d |-> 0])
        ELSE Ratio(a.n * b.n, a.d * b.d)

jsDiv(v, w) ==
    LET a == ToNumber(v)
        b == ToNumber(w)
    IN  IF IsNaN(a) \/ IsNaN(b) THEN NaN
        ELSE IF ~IsFinite(a) /\ ~IsFinite(b) THEN NaN
        ELSE IF ~IsFinite(a) THEN [n |-> a.n * (IF b.n < 0 THEN -1 ELSE 1), d |-> 0]
        ELSE IF ~IsFinite(b) THEN Num(0)
        ELSE IF b.n = 0 THEN (IF a.n = 0 THEN NaN ELSE [n |-> Sign(a.n), d |-> 0])
        ELSE Ratio(a.n * b.d, a.d * b.n)

(* v || w *)
Truthy(v) == v # null /\ v # undefined /\ v # NaN /\ v # Num(0)
jsOr(v, w) == IF Truthy(v) THEN v ELSE w

(* JSON.parse(JSON.stringify(v)) of one property value: an undefined property *)
(* is omitted, NaN and the infinities are written as null.                    *)
JSONValue(v) == IF v = undefined THEN undefined
                ELSE IF v.d = 0 THEN null
                ELSE v

Fields == {"x", "y", "scaleX", "scaleY", "rotation", "originX", "originY"}

JSONRoundTrip(obj) == [f \in Fields |-> JSONValue(obj[f])]

(* Object.assign(target, source): every own property of source overwrites *)
(* target's; a partial object is given as its set of keys and its values. *)
ObjectAssign(target, keys, source) ==
    [f \in Fields |-> IF f \in keys THEN source[f] ELSE target[f]]

-----------------------------------------------------------------------------
(* The scene graph as the selection uses it (spec section 6). *)

Range(s) == {s[i] : i \in 1..Len(s)}

reverse(s) == [i \in 1..Len(s) |-> s[Len(s) + 1 - i]]

(* item.layer.id *)
layerOf(ch, item) == CHOOSE l \in Layers : item \in Range(ch[l])

(* item.index, counted from 0 *)
index(ch, item) ==
    LET s == ch[layerOf(ch, item)]
    IN  (CHOOSE i \in 1..Len(s) : s[i] = item) - 1

nextSibling(ch, item) ==
    LET s == ch[layerOf(ch, item)]
        i == index(ch, item)
    IN  IF i + 2 <= Len(s) THEN s[i + 2] ELSE Null

previousSibling(ch, item) ==
    LET s == ch[layerOf(ch, item)]
        i == index(ch, item)
    IN  IF i >= 1 THEN s[i] ELSE Null

(* Array.prototype.indexOf *)
indexOf(seq, e) ==
    IF e \in Range(seq)
    THEN (CHOOSE i \in 1..Len(seq) : seq[i] = e /\ \A j \in 1..(i - 1) : seq[j] # e) - 1
    ELSE -1

removeItem(ch, item) ==
    [l \in Layers |-> SelectSeq(ch[l], LAMBDA e : e # item)]

insertChild(ch, l, i, item) ==
    [ch EXCEPT ![l] = SubSeq(@, 1, i) \o <<item>> \o SubSeq(@, i + 1, Len(@))]

(* item.insertAbove(other): item leaves its place and sits directly above other *)
insertAbove(ch, item, other) ==
    IF item = other THEN ch
    ELSE LET l == layerOf(ch, other)
             removed == removeItem(ch, item)
         IN  insertChild(removed, l, index(removed, other) + 1, item)

(* item.insertBelow(other): item leaves its place and sits directly below other *)
insertBelow(ch, item, other) ==
    IF item = other THEN ch
    ELSE LET l == layerOf(ch, other)
             removed == removeItem(ch, item)
         IN  insertChild(removed, l, index(removed, other), item)

(* item.bringToFront(): item becomes the last child of its parent *)
itemBringToFront(ch, item) ==
    LET l == layerOf(ch, item)
        removed == removeItem(ch, item)
    IN  insertChild(removed, l, Len(removed[l]), item)

(* item.sendToBack(): item becomes the first child of its parent *)
itemSendToBack(ch, item) ==
    LET l == layerOf(ch, item)
        removed == removeItem(ch, item)
    IN  insertChild(removed, l, 0, item)

-----------------------------------------------------------------------------
(* Ordering helpers *)

(* _sortItemsByLayer: an object keyed by layer id collects the items of each *)
(* layer in input order; for-in then enumerates the integer keys ascending.  *)
layerLists(ch, items) ==
    [l \in Layers |-> SelectSeq(items, LAMBDA it : layerOf(ch, it) = l)]

RECURSIVE forInDescending(_, _)
forInDescending(lists, keys) ==
    IF keys = {} THEN <<>>
    ELSE LET k == CHOOSE m \in keys : \A o \in keys : m >= o
         IN  <<lists[k]>> \o forInDescending(lists, keys \ {k})

RECURSIVE forIn(_, _)
forIn(lists, keys) ==
    IF keys = {} THEN <<>>
    ELSE LET k == CHOOSE m \in keys : \A o \in keys : m <= o
         IN  <<lists[k]>> \o forIn(lists, keys \ {k})

_sortItemsByLayer(ch, items) ==
    LET lists == layerLists(ch, items)
    IN  forIn(lists, {l \in Layers : lists[l] # <<>>})

(* stable insertion of e into a sequence sorted by index *)
RECURSIVE insertSorted(_, _, _)
insertSorted(ch, sorted, e) ==
    IF sorted = <<>> THEN <<e>>
    ELSE IF index(ch, e) - index(ch, Head(sorted)) < 0
         THEN <<e>> \o sorted
         ELSE <<Head(sorted)>> \o insertSorted(ch, Tail(sorted), e)

RECURSIVE sortByIndex(_, _)
sortByIndex(ch, items) ==
    IF items = <<>> THEN <<>>
    ELSE insertSorted(ch, sortByIndex(ch, SubSeq(items, 1, Len(items) - 1)),
                      items[Len(items)])

_sortItemsByZIndexUnsorted(ch, items) == items

_sortItemsByZIndex(ch, items) == sortByIndex(ch, items)

-----------------------------------------------------------------------------
(* Geometry.  Item bounds are scene data: item i is a box two units wide at  *)
(* x = i - 1, y = i mod 3; even items are horizontal lines (zero height).    *)

Rectangle(x, y, width, height) == [x |-> x, y |-> y, width |-> width, height |-> height]

itemBounds(item) == Rectangle(item - 1, item % 3, 2, 2 * (item % 2))

Min(a, b) == IF a <= b THEN a ELSE b
Max(a, b) == IF a >= b THEN a ELSE b

uniteKeepsFirst(a, b) == a

(* paper.Rectangle.unite *)
unite(a, b) ==
    LET x1 == Min(a.x, b.x)
        y1 == Min(a.y, b.y)
        x2 == Max(a.x + a.width, b.x + b.width)
        y2 == Max(a.y + a.height, b.y + b.height)
    IN  Rectangle(x1, y1, x2 - x1, y2 - y1)

RECURSIVE uniteAll(_, _)
uniteAll(bounds, items) ==
    IF items = <<>> THEN bounds
    ELSE uniteAll(unite(bounds, itemBounds(Head(items))), Tail(items))

_getBoundsOfItems(items) ==
    IF Len(items) = 0 THEN Rectangle(0, 0, 0, 0)
    ELSE uniteAll(itemBounds(Head(items)), Tail(items))

Point(x, y) == [x |-> x, y |-> y]

topLeft(rect) == Point(Num(rect.x), Num(rect.y))
center(rect) == Point(Ratio(2 * rect.x + rect.width, 2), Ratio(2 * rect.y + rect.height, 2))

-----------------------------------------------------------------------------
(* The visualization widget (paper.SelectionGUI), a collaborator outside this *)
(* file: it is built from {items, transformation, bounds}, owns a root node   *)
(* and exposes destroy().                                                     *)

guiItem(w) == 0 - w     \* the root node of widget w, a scene item of its own

newSelectionGUI == [destroyCalls |-> 0]

(* _destroy: this._gui.destroy(), recorded on the widget it is called on *)
_destroy(ws, w) == [ws EXCEPT ![w].destroyCalls = @ + 1]

(* what destroy() does to the scene: the widget's root node leaves its layer *)
guiDestroyed(ch, w) == removeItem(ch, guiItem(w))

(* layer.addChild(node): node becomes the frontmost child of layer *)
addChild(ch, l, node) ==
    LET removed == removeItem(ch, node)
    IN  insertChild(removed, l, Len(removed[l]), node)

-----------------------------------------------------------------------------
(* Heap of transformation-shaped objects *)

ObjIds == 1..(MaxCallerObjs + 1)

emptyObject == [f \in Fields |-> undefined]

live(t, refs) == refs \cup {t}

(* a fresh object id; ids no longer referenced are reused *)
alloc(t, refs) == CHOOSE o \in ObjIds : o \notin live(t, refs) /\
                      \A p \in ObjIds : p \notin live(t, refs) => o <= p

(* the heap with every unreferenced object cleared *)
collect(h, t, refs) == [o \in ObjIds |-> IF o \in live(t, refs) THEN h[o] ELSE emptyObject]

-----------------------------------------------------------------------------
(* Z-order operations *)

(* this._items.indexOf(sibling) === -1 *)
notSelectedNever(items, sibling) == TRUE

notSelected(items, sibling) == indexOf(items, sibling) = -1

(* the callback run on each item of a group *)
moveForwardsItem(ch, items, item) ==
    LET sibling == nextSibling(ch, item)
    IN  IF sibling # Null /\ notSelected(items, sibling)
        THEN insertAbove(ch, item, sibling) ELSE ch

moveBackwardsItemUnchecked(ch, items, item) ==
    LET sibling == previousSibling(ch, item)
    IN  IF sibling # Null THEN insertBelow(ch, item, sibling) ELSE ch

moveBackwardsItem(ch, items, item) ==
    LET sibling == previousSibling(ch, item)
    IN  IF sibling # Null /\ notSelected(items, sibling)
        THEN insertBelow(ch, item, sibling) ELSE ch

each(op, ch, items, item) ==
    CASE op = "moveForwards" -> moveForwardsItem(ch, items, item)
      [] op = "moveBackwards" -> moveBackwardsItem(ch, items, item)
      [] op = "bringToFront" -> itemBringToFront(ch, item)
      [] op = "sendToBack" -> itemSendToBack(ch, item)

(* the order in which an operation visits the items of one group *)
ascending(ch, group) == _sortItemsByZIndex(ch, group)

descending(ch, group) == reverse(_sortItemsByZIndex(ch, group))

moveForwardsOrderAscending(ch, group) == ascending(ch, group)
moveForwardsOrder(ch, group) == descending(ch, group)
moveBackwardsOrderDescending(ch, group) == descending(ch, group)
moveBackwardsOrder(ch, group) == ascending(ch, group)
bringToFrontOrder(ch, group) == ascending(ch, group)
sendToBackOrderAscending(ch, group) == ascending(ch, group)
sendToBackOrder(ch, group) == descending(ch, group)

order(op, ch, group) ==
    CASE op = "moveForwards" -> moveForwardsOrder(ch, group)
      [] op = "moveBackwards" -> moveBackwardsOrder(ch, group)
      [] op = "bringToFront" -> bringToFrontOrder(ch, group)
      [] op = "sendToBack" -> sendToBackOrder(ch, group)

(* sorted.forEach(item => ...) *)
RECURSIVE forEachItem(_, _, _, _)
forEachItem(op, ch, items, sorted) ==
    IF sorted = <<>> THEN ch
    ELSE forEachItem(op, each(op, ch, items, Head(sorted)), items, Tail(sorted))

(* groups.forEach(group => sort(group).forEach(...)): each group is sorted *)
(* when its turn comes, from the indices the scene has then                *)
RECURSIVE forEachGroup(_, _, _, _)
forEachGroup(op, ch, items, groups) ==
    IF groups = <<>> THEN ch
    ELSE forEachGroup(op, forEachItem(op, ch, items, order(op, ch, Head(groups))),
                      items, Tail(groups))

moveForwards(ch, items) == forEachGroup("moveForwards", ch, items, _sortItemsByLayer(ch, items))
moveBackwards(ch, items) == forEachGroup("moveBackwards", ch, items, _sortItemsByLayer(ch, items))
bringToFront(ch, items) == forEachGroup("bringToFront", ch, items, _sortItemsByLayer(ch, items))
sendToBack(ch, items) == forEachGroup("sendToBack", ch, items, _sortItemsByLayer(ch, items))

-----------------------------------------------------------------------------
(* Construction *)

noRun == [start |-> <<>>, count |-> 0]

(* _rebuild as the constructor runs it: this._gui is still undefined, so     *)
(* nothing is destroyed; a widget is built and, if anything is selected, its *)
(* root node is added to the layer.                                          *)
_rebuildScene(ch, l, items, w) == IF Len(items) > 0 THEN addChild(ch, l, guiItem(w)) ELSE ch

constructor(scene, args) ==
    LET bounds == _getBoundsOfItems(args.items)
        t == [x |-> jsOr(args.x, Num(0)),
              y |-> jsOr(args.y, Num(0)),
              scaleX |-> jsOr(args.scaleX, Num(1)),
              scaleY |-> jsOr(args.scaleY, Num(1)),
              rotation |-> jsOr(args.rotation, Num(0)),
              originX |-> IF args.originX # undefined THEN args.originX ELSE center(bounds).x,
              originY |-> IF args.originY # undefined THEN args.originY ELSE center(bounds).y]
    IN  /\ _layer = args.layer
        /\ _items = args.items
        /\ _transformation = 1
        /\ heap = [o \in ObjIds |-> IF o = 1 THEN t ELSE emptyObject]
        /\ callerRefs = {}
        /\ _untransformedBounds = bounds
        /\ widgets = <<newSelectionGUI>>
        /\ _gui = 1
        /\ children = _rebuildScene(scene, args.layer, args.items, 1)
        /\ pre = _rebuildScene(scene, args.layer, args.items, 1)
        /\ lastOp = "constructor"
        /\ arg = args
        /\ thrown = "none"
        /\ reported = <<>>
        /\ run = noRun

noArgs == [x |-> undefined, y |-> undefined, scaleX |-> undefined, scaleY |-> undefined,
           rotation |-> undefined, originX |-> undefined, originY |-> undefined]

(* duplicate-free sequences of at most MaxSel items *)
Selections ==
    {s \in UNION {[1..k -> Items] : k \in 0..MaxSel} :
        \A i, j \in 1..Len(s) : i # j => s[i] # s[j]}

(* a scene: items 1..k in layer 1 and the others in layer 2, stacked by id *)
Stacking(k) == [l \in Layers |-> IF l = 1 THEN [i \in 1..k |-> i]
                                 ELSE [i \in 1..(NumItems - k) |-> k + i]]

-----------------------------------------------------------------------------
(* The z-order calls *)

selectionUnchanged ==
    UNCHANGED <<_layer, _transformation, _untransformedBounds, _gui, heap,
                callerRefs, widgets>>

(* this._items after a z-order call: _sortItemsByLayer pushes the items into *)
(* arrays of its own, so the in-place sort() and reverse() of a group never  *)
(* reorder this._items                                                       *)
itemsSortedInPlace(ch, items) == _sortItemsByZIndex(ch, items)

itemsAfterSort(ch, items) == items

(* one z-order call; r is the run the call is counted in *)
Call(op, after, r) ==
    /\ children' = after
    /\ _items' = itemsAfterSort(children, _items)
    /\ pre' = children
    /\ lastOp' = op
    /\ arg' = null
    /\ thrown' = "none"
    /\ reported' = <<>>
    /\ run' = r
    /\ selectionUnchanged

ZOrder(op, after) == Call(op, after, noRun)

(* calls of one operation in a row that are followed; NumItems + 1 is every *)
(* item of the scene and the widget's root node                             *)
MaxRun == NumItems + 2

(* the same call made again and again on a constructed selection *)
Repeated(op, after) ==
    /\ lastOp \in {"constructor", op}
    /\ run.count < MaxRun
    /\ Call(op, after, [start |-> IF run.count = 0 THEN children ELSE run.start,
                        count |-> run.count + 1])

MoveForwards == ZOrder("moveForwards", moveForwards(children, _items))
MoveBackwards == ZOrder("moveBackwards", moveBackwards(children, _items))
BringToFront == ZOrder("bringToFront", bringToFront(children, _items))
SendToBack == ZOrder("sendToBack", sendToBack(children, _items))

InitOrder ==
    \E k \in 0..NumItems, l \in Layers, s \in Selections :
        constructor(Stacking(k), noArgs @@ [layer |-> l, items |-> s])

NextOrder == MoveForwards \/ MoveBackwards \/ BringToFront \/ SendToBack

SpecOrder == InitOrder /\ [][NextOrder]_vars

(* runs of one step call on a constructed selection *)
MoveForwardsAgain == Repeated("moveForwards", moveForwards(children, _items))
MoveBackwardsAgain == Repeated("moveBackwards", moveBackwards(children, _items))

NextRun == MoveForwardsAgain \/ MoveBackwardsAgain

SpecRun == InitOrder /\ [][NextRun]_vars

-----------------------------------------------------------------------------
(* The transformation and the widget *)

(* get transformation: JSON.parse(JSON.stringify(this._transformation)) *)
transformation(h, t) == JSONRoundTrip(h[t])

(* this._matrix: the class defines no such property, so every read of it *)
(* yields undefined                                                      *)
_matrix == undefined

(* paper.Point.transform(matrix): `matrix ? matrix._transformPoint(this) : this` *)
transform(point, matrix) ==
    IF matrix = undefined THEN point
    ELSE Point(jsAdd(jsAdd(jsMul(matrix.a, point.x), jsMul(matrix.c, point.y)), matrix.tx),
               jsAdd(jsAdd(jsMul(matrix.b, point.x), jsMul(matrix.d, point.y)), matrix.ty))

(* new paper.Point(x, y): a non-number x gives (0, 0), a non-number y gives (x, x) *)
isNumberType(v) == v.d >= 0
paperPoint(x, y) ==
    IF ~isNumberType(x) THEN Point(Num(0), Num(0))
    ELSE IF ~isNumberType(y) THEN Point(x, x)
    ELSE Point(x, y)

(* get position *)
position(h, t, bounds) == transform(topLeft(bounds), _matrix)

(* get origin *)
origin(h, t, bounds) == transform(paperPoint(h[t].originX, h[t].originY), _matrix)

(* get width, get height *)
width(h, t, bounds) == jsMul(Num(bounds.width), transformation(h, t).scaleX)
height(h, t, bounds) == jsMul(Num(bounds.height), transformation(h, t).scaleY)

(* this._create(): the class defines _rebuild and _destroy but no _create, *)
(* so the call ends the setter with a TypeError                           *)
_create == "TypeError"

(* the object that becomes this._transformation when the setter is handed a *)
(* fresh object nobody else holds: the old one is unreferenced afterwards   *)
(* unless the caller holds it, so its id is reused                          *)
freshInternal(t, refs) == IF t \notin refs THEN t ELSE alloc(t, refs)

(* set transformation (value): _destroy(true); this._transformation = value; *)
(* this._create()                                                            *)
SetTransformationTo(ref, obj, op, a) ==
    /\ widgets[_gui].destroyCalls < MaxDestroyCalls
    /\ widgets' = _destroy(widgets, _gui)
    /\ children' = guiDestroyed(children, _gui)
    /\ _transformation' = ref
    /\ heap' = collect([heap EXCEPT ![ref] = obj], ref, callerRefs)
    /\ thrown' = _create
    /\ reported' = <<>>
    /\ run' = noRun
    /\ lastOp' = op
    /\ arg' = a
    /\ pre' = children
    /\ UNCHANGED <<_layer, _items, _untransformedBounds, _gui, callerRefs>>

(* updateTransformation(partial): Object.assign(this.transformation, partial) *)
(* handed to the setter                                                       *)
UpdateTransformationWith(keys, source, op, a) ==
    SetTransformationTo(freshInternal(_transformation, callerRefs),
                        ObjectAssign(transformation(heap, _transformation), keys, source),
                        op, a)

(* an object literal with the given properties *)
literal(keys, source) == ObjectAssign(emptyObject, keys, source)

withinCoord(v) == IsFinite(v) => (Abs(v.n) <= MaxCoord * v.d)

SetItemsAndRebuild(items) ==
    /\ widgets[_gui].destroyCalls < MaxDestroyCalls
    /\ widgets' = Append(_destroy(widgets, _gui), newSelectionGUI)
    /\ _gui' = Len(widgets) + 1
    /\ children' = _rebuildScene(guiDestroyed(children, _gui), _layer, items,
                                 Len(widgets) + 1)
    /\ _items' = items
    /\ lastOp' = "setItems"
    /\ arg' = null
    /\ pre' = children
    /\ thrown' = "none"
    /\ reported' = <<>>
    /\ run' = noRun
    /\ UNCHANGED <<_layer, _transformation, _untransformedBounds, heap, callerRefs>>

(* set items *)
SetItems(items) ==
    /\ widgets[_gui].destroyCalls < MaxDestroyCalls
    /\ widgets' = _destroy(widgets, _gui)
    /\ children' = guiDestroyed(children, _gui)
    /\ _items' = items
    /\ lastOp' = "setItems"
    /\ arg' = null
    /\ pre' = children
    /\ thrown' = "none"
    /\ reported' = <<>>
    /\ run' = noRun
    /\ UNCHANGED <<_layer, _transformation, _untransformedBounds, _gui, heap, callerRefs>>

(* t = selection.transformation: the caller keeps the copy it is given *)
GetTransformation ==
    /\ Cardinality(callerRefs) < MaxCallerObjs
    /\ LET o == alloc(_transformation, callerRefs)
       IN  /\ heap' = [heap EXCEPT ![o] = transformation(heap, _transformation)]
           /\ callerRefs' = callerRefs \cup {o}
    /\ lastOp' = "getTransformation"
    /\ arg' = null
    /\ thrown' = "none"
    /\ reported' = <<>>
    /\ run' = noRun
    /\ pre' = children
    /\ UNCHANGED <<children, _layer, _items, _transformation, _untransformedBounds, _gui,
                   widgets>>

(* t = {...}: the caller builds an object of its own *)
CallerNew(obj) ==
    /\ Cardinality(callerRefs) < MaxCallerObjs
    /\ LET o == alloc(_transformation, callerRefs)
       IN  /\ heap' = [heap EXCEPT ![o] = obj]
           /\ callerRefs' = callerRefs \cup {o}
    /\ lastOp' = "callerNew"
    /\ arg' = null
    /\ thrown' = "none"
    /\ reported' = <<>>
    /\ run' = noRun
    /\ pre' = children
    /\ UNCHANGED <<children, _layer, _items, _transformation, _untransformedBounds, _gui,
                   widgets>>

(* t.field = value, on an object the caller holds *)
CallerMutate(ref, field, value) ==
    /\ ref \in callerRefs
    /\ heap' = [heap EXCEPT ![ref][field] = value]
    /\ lastOp' = "callerMutate"
    /\ arg' = null
    /\ thrown' = "none"
    /\ reported' = <<>>
    /\ run' = noRun
    /\ pre' = children
    /\ UNCHANGED <<children, _layer, _items, _transformation, _untransformedBounds, _gui,
                   callerRefs, widgets>>

(* the caller lets go of an object *)
CallerForget(ref) ==
    /\ ref \in callerRefs
    /\ callerRefs' = callerRefs \ {ref}
    /\ heap' = collect(heap, _transformation, callerRefs \ {ref})
    /\ lastOp' = "callerForget"
    /\ arg' = null
    /\ thrown' = "none"
    /\ reported' = <<>>
    /\ run' = noRun
    /\ pre' = children
    /\ UNCHANGED <<children, _layer, _items, _transformation, _untransformedBounds, _gui,
                   widgets>>

(* selection.transformation = t, t an object the caller holds *)
SetTransformation(ref) ==
    /\ ref \in callerRefs
    /\ SetTransformationTo(ref, heap[ref], "setTransformation", null)

(* selection.transformation = {...}: the caller keeps no reference *)
SetTransformationLiteral(obj) ==
    SetTransformationTo(freshInternal(_transformation, callerRefs), obj,
                        "setTransformation", null)

UpdateTransformation(keys, source) ==
    UpdateTransformationWith(keys, source, "updateTransformation",
                             [keys |-> keys, source |-> source])

SetPosition(p) ==
    LET d == Point(jsSub(p.x, position(heap, _transformation, _untransformedBounds).x),
                   jsSub(p.y, position(heap, _transformation, _untransformedBounds).y))
        x == jsAdd(transformation(heap, _transformation).x, d.x)
        y == jsAdd(transformation(heap, _transformation).y, d.y)
    IN  /\ withinCoord(x) /\ withinCoord(y)
        /\ UpdateTransformationWith({"x", "y"}, [x |-> x, y |-> y], "setPosition", p)

SetOrigin(p) ==
    LET d == Point(jsSub(p.x, origin(heap, _transformation, _untransformedBounds).x),
                   jsSub(p.y, origin(heap, _transformation, _untransformedBounds).y))
        x == jsAdd(transformation(heap, _transformation).x, d.x)
        y == jsAdd(transformation(heap, _transformation).y, d.y)
    IN  /\ withinCoord(x) /\ withinCoord(y)
        /\ UpdateTransformationWith({"x", "y"}, [x |-> x, y |-> y], "setOrigin", p)

SetWidth(w) ==
    LET d == jsDiv(width(heap, _transformation, _untransformedBounds), w)
    IN  UpdateTransformationWith({"scaleX"},
            [scaleX |-> jsDiv(transformation(heap, _transformation).scaleX, d)],
            "setWidth", w)

SetHeight(hh) ==
    LET d == jsDiv(height(heap, _transformation, _untransformedBounds), hh)
    IN  UpdateTransformationWith({"scaleY"},
            [scaleY |-> jsDiv(transformation(heap, _transformation).scaleY, d)],
            "setHeight", hh)

(* getPathAttribute(attributeName): console.error on an empty selection, and *)
(* then `this.items[0][attributeName]` all the same; items[0] of an empty    *)
(* array is undefined, and reading a property of undefined is a TypeError    *)
PathAttributes == {"fillColor", "strokeColor", "strokeWidth"}

GetPathAttribute(attributeName) ==
    /\ reported' = IF Len(_items) = 0
                   THEN <<"getPathAttribute(): Nothing in the selection!">>
                   ELSE <<>>
    /\ thrown' = IF Len(_items) = 0 THEN "TypeError" ELSE "none"
    /\ lastOp' = "getPathAttribute"
    /\ arg' = null
    /\ run' = noRun
    /\ pre' = children
    /\ UNCHANGED <<children, _layer, _items, _transformation, _untransformedBounds,
                   _gui, heap, callerRefs, widgets>>

SetScaleX(v) == UpdateTransformationWith({"scaleX"}, [scaleX |-> v], "setScaleX", v)
SetScaleY(v) == UpdateTransformationWith({"scaleY"}, [scaleY |-> v], "setScaleY", v)
SetRotation(v) == UpdateTransformationWith({"rotation"}, [rotation |-> v], "setRotation", v)

-----------------------------------------------------------------------------
(* The calls explored on the transformation side, with their arguments *)

TransformSelections == {<<>>, <<1>>, <<2, 1>>}

Configs ==
    {noArgs,
     [noArgs EXCEPT !.x = Num(1), !.y = Num(-1), !.scaleX = Num(2), !.scaleY = Num(1),
                    !.rotation = Num(0)],
     [noArgs EXCEPT !.scaleX = Num(0), !.rotation = Num(90), !.originX = Num(0),
                    !.originY = Num(1)]}

CallerLiterals ==
    {literal(Fields, [x |-> Num(1), y |-> Num(1), scaleX |-> Num(2), scaleY |-> Num(2),
                      rotation |-> Num(0), originX |-> Num(0), originY |-> Num(0)]),
     literal({"x"}, [x |-> Num(1)])}

Mutations == {<<"x", Num(2)>>, <<"originX", Num(1)>>}

Partials ==
    {[keys |-> {"x"}, source |-> [x |-> Num(1)]],
     [keys |-> {"originX", "rotation"}, source |-> [originX |-> Num(1), rotation |-> Num(90)]]}

Points == {Point(Num(1), Num(1))}
Extents == {Num(4)}
Scales == {Num(2)}
Rotations == {Num(90)}

InitTransform ==
    \E l \in Layers, s \in TransformSelections, c \in Configs :
        constructor(Stacking(NumItems), c @@ [layer |-> l, items |-> s])

NextTransform ==
    \/ \E s \in TransformSelections : SetItems(s)
    \/ \E obj \in CallerLiterals : SetTransformationLiteral(obj)
    \/ \E p \in Partials : UpdateTransformation(p.keys, p.source)
    \/ \E p \in Points : SetPosition(p)
    \/ \E p \in Points : SetOrigin(p)
    \/ \E w \in Extents : SetWidth(w)
    \/ \E w \in Extents : SetHeight(w)
    \/ \E v \in Scales : SetScaleX(v)
    \/ \E v \in Scales : SetScaleY(v)
    \/ \E v \in Rotations : SetRotation(v)
    \/ \E a \in PathAttributes : GetPathAttribute(a)

SpecTransform == InitTransform /\ [][NextTransform]_vars

(* The calls explored where the caller keeps references to transformation *)
(* objects: the ones the getter hands out and the ones it gives the setter *)

InitAlias ==
    \E s \in TransformSelections :
        constructor(Stacking(NumItems), noArgs @@ [layer |-> 2, items |-> s])

NextAlias ==
    \/ GetTransformation
    \/ \E obj \in CallerLiterals : CallerNew(obj)
    \/ \E ref \in ObjIds, m \in Mutations : CallerMutate(ref, m[1], m[2])
    \/ \E ref \in ObjIds : CallerForget(ref)
    \/ \E ref \in ObjIds : SetTransformation(ref)
    \/ \E p \in Partials : UpdateTransformation(p.keys, p.source)
    \/ \E v \in Scales : SetScaleX(v)

SpecAlias == InitAlias /\ [][NextAlias]_vars

-----------------------------------------------------------------------------
(* Properties of the z-order operations *)

isSelected(item) == item \in Range(_items)

(* the selected items of a layer, from the back to the front *)
selectedOf(ch, l) == SelectSeq(ch[l], isSelected)

(* every selected item of every layer is in front of every other item of it *)
selectedInFront(ch) ==
    \A l \in Layers : \A i, j \in 1..Len(ch[l]) :
        (isSelected(ch[l][i]) /\ ~isSelected(ch[l][j])) => i > j

selectedBehind(ch) ==
    \A l \in Layers : \A i, j \in 1..Len(ch[l]) :
        (isSelected(ch[l][i]) /\ ~isSelected(ch[l][j])) => i < j

sameSelectedOrder(before, after) ==
    \A l \in Layers : selectedOf(after, l) = selectedOf(before, l)

(* some layer held, when the call began, at least n selected items and an *)
(* item that is not selected in front of one of them                      *)
blockInFront(ch, n) ==
    \E l \in Layers :
        /\ Len(selectedOf(ch, l)) >= n
        /\ \E i, j \in 1..Len(ch[l]) : i < j /\ isSelected(ch[l][i]) /\ ~isSelected(ch[l][j])

blockBehind(ch, n) ==
    \E l \in Layers :
        /\ Len(selectedOf(ch, l)) >= n
        /\ \E i, j \in 1..Len(ch[l]) : i > j /\ isSelected(ch[l][i]) /\ ~isSelected(ch[l][j])

(* C1: after bringToFront(), in every layer the selected items keep the     *)
(* relative depth order they had before the call and are all in front of    *)
(* every item of the layer that is not selected.                            *)
C1_BringToFront ==
    lastOp = "bringToFront" => (sameSelectedOrder(pre, children) /\ selectedInFront(children))

C1_Witness ==
    /\ lastOp = "bringToFront"
    /\ blockInFront(pre, 3)
    /\ children # pre

(* every item in front of item in its layer, when the call began *)
inFrontOf(ch, item) ==
    LET s == ch[layerOf(ch, item)]
    IN  {s[i] : i \in (index(ch, item) + 2)..Len(s)}

(* C2 as claimed: moveForwards() leaves the depth index of every selected   *)
(* item unchanged whose next sibling was selected when the call began.      *)
C2_BlockedBySelectedSibling ==
    lastOp = "moveForwards" =>
        \A item \in Range(_items) :
            isSelected(nextSibling(pre, item)) => index(children, item) = index(pre, item)

(* C2 as amended: moveForwards() leaves the depth index of every selected   *)
(* item unchanged whose next sibling, and every item further to the front   *)
(* of its layer, was selected when the call began.                          *)
C2_BlockedUpToFront ==
    lastOp = "moveForwards" =>
        \A item \in Range(_items) :
            (isSelected(nextSibling(pre, item)) /\ \A o \in inFrontOf(pre, item) : isSelected(o))
                => index(children, item) = index(pre, item)

C2_Witness ==
    /\ lastOp = "moveForwards"
    /\ children # pre
    /\ \E item \in Range(_items) :
          /\ isSelected(nextSibling(pre, item))
          /\ \A o \in inFrontOf(pre, item) : isSelected(o)

(* C3: after moveForwards() or moveBackwards() the selected items of every  *)
(* layer are in the same relative depth order as before the call.           *)
C3_StepKeepsSelectedOrder ==
    lastOp \in {"moveForwards", "moveBackwards"} => sameSelectedOrder(pre, children)

C3_Witness ==
    /\ lastOp \in {"moveForwards", "moveBackwards"}
    /\ children # pre
    /\ \E l \in Layers : Len(selectedOf(pre, l)) >= 2 /\ children[l] # pre[l]

(* C4: after sendToBack(), in every layer the selected items keep the       *)
(* relative depth order they had before the call and are all behind every   *)
(* item of the layer that is not selected.                                  *)
C4_SendToBack ==
    lastOp = "sendToBack" => (sameSelectedOrder(pre, children) /\ selectedBehind(children))

C4_Witness ==
    /\ lastOp = "sendToBack"
    /\ blockBehind(pre, 3)
    /\ children # pre

-----------------------------------------------------------------------------
(* Properties of the transformation and of the widget *)

TransformationCalls ==
    {"setTransformation", "updateTransformation", "setPosition", "setOrigin", "setWidth",
     "setHeight", "setScaleX", "setScaleY", "setRotation"}

(* C5: a call of updateTransformation, or of a setter that goes through it, *)
(* returns with the old widget destroyed and this._gui a newly built widget *)
(* that has not been destroyed.                                             *)
C5_WidgetRebuilt ==
    lastOp \in TransformationCalls =>
        /\ thrown = "none"
        /\ Len(widgets) >= 2
        /\ _gui = Len(widgets)
        /\ widgets[_gui].destroyCalls = 0
        /\ \A w \in 1..(Len(widgets) - 1) : widgets[w].destroyCalls >= 1

(* C6: an assignment to `items` leaves every field of the transformation   *)
(* as it was, calls destroy() on the current widget exactly once and builds *)
(* no widget.                                                               *)
C6_SetItemsFrame ==
    [][lastOp' = "setItems" =>
        /\ heap'[_transformation'] = heap[_transformation]
        /\ _gui' = _gui
        /\ Len(widgets') = Len(widgets)
        /\ widgets'[_gui].destroyCalls = widgets[_gui].destroyCalls + 1
        /\ \A w \in 1..Len(widgets) : w # _gui => widgets'[w] = widgets[w]]_vars

C6_Witness ==
    /\ lastOp = "setItems"
    /\ _items # <<>>
    /\ Len(widgets) = 1
    /\ widgets[_gui].destroyCalls = 1

(* C7: in every reachable state untransformedBounds is the union of the    *)
(* bounds of the items now in the selection (the zero box at the origin    *)
(* when there are none).                                                   *)
C7_BoundsFollowItems == _untransformedBounds = _getBoundsOfItems(_items)

(* C8: a write by the caller to an object it holds, one the getter returned *)
(* or one it gave to the setter, does not change what `transformation`      *)
(* reads.                                                                   *)
C8_NeverAliased ==
    [][lastOp' = "callerMutate" =>
        transformation(heap', _transformation') = transformation(heap, _transformation)]_vars

populated(obj) == \A f \in Fields : obj[f] # undefined

(* C9: the internal transformation always has its seven fields, whatever    *)
(* object the setter or updateTransformation was given, and                 *)
(* updateTransformation(partial) changes the fields partial names and no    *)
(* other.                                                                   *)
C9_PopulatedAndMerged ==
    [][/\ populated(heap'[_transformation'])
       /\ lastOp' = "updateTransformation" =>
            \A f \in Fields \ arg'.keys :
                heap'[_transformation'][f] = heap[_transformation][f]]_vars

(* the second half of C9 alone *)
UpdateChangesNamedFieldsOnly ==
    [][lastOp' = "updateTransformation" =>
            \A f \in Fields \ arg'.keys :
                heap'[_transformation'][f] = heap[_transformation][f]]_vars

(* C10: reading `position` right after setting it to P returns P. *)
C10_PositionRoundTrip ==
    lastOp = "setPosition" => position(heap, _transformation, _untransformedBounds) = arg

(* C11: after `sel.width = W` with W > 0, whatever scaleX and the            *)
(* untransformed bounds were, `sel.width` reads W.                           *)
C11_WidthRoundTrip ==
    lastOp = "setWidth" =>
        width(heap, _transformation, _untransformedBounds) = arg

(* C12: getPathAttribute on an empty selection reports a diagnostic and      *)
(* returns to the caller; it does not end in a thrown error.                 *)
C12_EmptyReadReturns ==
    (lastOp = "getPathAttribute" /\ Len(_items) = 0) =>
        /\ reported # <<>>
        /\ thrown = "none"

(* C13: right after construction `transformation` reads, for each of x, y,   *)
(* scaleX, scaleY, rotation, originX, originY given as a number in the       *)
(* config, exactly that number; an omitted originX / originY reads the       *)
(* center of the union bounds of the items.                                  *)
C13_ConstructionRoundTrip ==
    lastOp = "constructor" =>
        /\ \A f \in Fields :
            IsFinite(arg[f]) => transformation(heap, _transformation)[f] = arg[f]
        /\ arg.originX = undefined =>
            transformation(heap, _transformation).originX
                = center(_getBoundsOfItems(arg.items)).x
        /\ arg.originY = undefined =>
            transformation(heap, _transformation).originY
                = center(_getBoundsOfItems(arg.items)).y

contains(r, s) ==
    /\ r.x <= s.x
    /\ r.y <= s.y
    /\ s.x + s.width <= r.x + r.width
    /\ s.y + s.height <= r.y + r.height

(* r contains the bounds of every item and no smaller rectangle does: each *)
(* of its four edges lies on the edge of some item                         *)
smallestContaining(r, items) ==
    /\ \A i \in 1..Len(items) : contains(r, itemBounds(items[i]))
    /\ \E i \in 1..Len(items) : itemBounds(items[i]).x = r.x
    /\ \E i \in 1..Len(items) : itemBounds(items[i]).y = r.y
    /\ \E i \in 1..Len(items) :
        itemBounds(items[i]).x + itemBounds(items[i]).width = r.x + r.width
    /\ \E i \in 1..Len(items) :
        itemBounds(items[i]).y + itemBounds(items[i]).height = r.y + r.height

permutationsOf(items) ==
    {p \in [1..Len(items) -> Range(items)] : Range(p) = Range(items)}

(* C14: the bounds the constructor computes with _getBoundsOfItems are the   *)
(* zero rectangle at the origin for no items, the item's own bounds for one  *)
(* item, the smallest rectangle containing every item's bounds otherwise,    *)
(* and the same for every permutation of the items.                          *)
C14_BoundsOfItems ==
    /\ Len(_items) = 0 => _untransformedBounds = Rectangle(0, 0, 0, 0)
    /\ Len(_items) = 1 => _untransformedBounds = itemBounds(_items[1])
    /\ Len(_items) > 0 => smallestContaining(_untransformedBounds, _items)
    /\ \A p \in permutationsOf(_items) : _getBoundsOfItems(p) = _untransformedBounds

(* three items given out of order, none of which spans the union by itself *)
C14_Witness ==
    /\ Len(_items) = 3
    /\ _items[1] > _items[2]
    /\ \A i \in 1..Len(_items) : itemBounds(_items[i]) # _untransformedBounds
    /\ _untransformedBounds.width > 2
    /\ _untransformedBounds.height > 2

(* C15: `sel.origin = P` leaves originX, originY, scaleX, scaleY and         *)
(* rotation of the transformation as they were; only x and y may change.     *)
C15_OriginFrame ==
    [][lastOp' = "setOrigin" =>
        \A f \in Fields \ {"x", "y"} :
            heap'[_transformation'][f] = heap[_transformation][f]]_vars

ZOrderCalls == {"moveForwards", "moveBackwards", "bringToFront", "sendToBack"}

(* the items of a layer that are not selected, from the back to the front *)
notSelectedOf(ch, l) == SelectSeq(ch[l], LAMBDA item : ~isSelected(item))

(* C16: a z-order call moves no item to another layer, keeps the relative    *)
(* depth order of the items that are not selected in every layer, leaves     *)
(* every layer without a selected item as it was, leaves every layer as it   *)
(* was when the selection is empty, and leaves the selection's `items` and   *)
(* transformation as they were.                                              *)
C16_ZOrderFrame ==
    [][lastOp' \in ZOrderCalls =>
        /\ \A l \in Layers :
            /\ Range(children'[l]) = Range(children[l])
            /\ Len(children'[l]) = Len(children[l])
            /\ notSelectedOf(children', l) = notSelectedOf(children, l)
            /\ selectedOf(children, l) = <<>> => children'[l] = children[l]
        /\ _items = <<>> => children' = children
        /\ _items' = _items
        /\ _transformation' = _transformation
        /\ heap'[_transformation'] = heap[_transformation]]_vars

(* a call that reordered a layer holding selected items, given out of depth *)
(* order, among at least two items that are not selected, while the other   *)
(* layer holds items and none of the selection                              *)
C16_Witness ==
    /\ lastOp \in ZOrderCalls
    /\ children # pre
    /\ Len(_items) >= 2
    /\ _items # _sortItemsByZIndex(pre, _items)
    /\ \E l \in Layers :
        /\ children[l] # pre[l]
        /\ Len(notSelectedOf(pre, l)) >= 2
    /\ \E l \in Layers : selectedOf(pre, l) = <<>> /\ pre[l] # <<>>

(* the items in front of `item` in its layer that are not selected *)
notSelectedInFront(ch, item) == {sibling \in inFrontOf(ch, item) : ~isSelected(sibling)}

behind(ch, item) ==
    LET s == ch[layerOf(ch, item)]
    IN  {s[i] : i \in 1..index(ch, item)}

notSelectedBehind(ch, item) == {sibling \in behind(ch, item) : ~isSelected(sibling)}

(* C17: after moveForwards() every selected item is one index higher in its  *)
(* layer than before if an item of the layer that is not selected was in     *)
(* front of it, and where it was otherwise; after moveBackwards() it is one  *)
(* index lower if such an item was behind it, and where it was otherwise.    *)
C17_StepByOne ==
    /\ lastOp = "moveForwards" =>
        \A item \in Range(_items) :
            index(children, item) =
                index(pre, item) + (IF notSelectedInFront(pre, item) # {} THEN 1 ELSE 0)
    /\ lastOp = "moveBackwards" =>
        \A item \in Range(_items) :
            index(children, item) =
                index(pre, item) - (IF notSelectedBehind(pre, item) # {} THEN 1 ELSE 0)

(* a step in which one selected item moved, another of the same layer stayed, *)
(* and a third moved although its neighbour in the direction of the step was  *)
(* selected                                                                   *)
C17_Witness ==
    /\ lastOp \in {"moveForwards", "moveBackwards"}
    /\ \E a, b \in Range(_items) :
        /\ a # b
        /\ layerOf(pre, a) = layerOf(pre, b)
        /\ index(children, a) # index(pre, a)
        /\ index(children, b) = index(pre, b)
    /\ \E c \in Range(_items) :
        /\ index(children, c) # index(pre, c)
        /\ \/ lastOp = "moveForwards" /\ isSelected(nextSibling(pre, c))
           \/ lastOp = "moveBackwards" /\ isSelected(previousSibling(pre, c))

(* the groups the last z-order call got from _sortItemsByLayer(this._items) *)
groupsOfCall == _sortItemsByLayer(pre, _items)

(* the layer of a group: the layer of its first item *)
groupLayer(ch, group) == layerOf(ch, group[1])

(* the groups are a partition of items by owning layer *)
partitionByLayer(ch, items, groups) ==
    /\ \A g \in 1..Len(groups) :
        /\ groups[g] # <<>>
        /\ \A i \in 1..Len(groups[g]) :
            layerOf(ch, groups[g][i]) = groupLayer(ch, groups[g])
    /\ \A i \in 1..Len(items) :
        Cardinality({<<g, j>> \in (1..Len(groups)) \X (1..Len(items)) :
                        j <= Len(groups[g]) /\ groups[g][j] = items[i]}) = 1
    /\ \A g \in 1..Len(groups) : Range(groups[g]) \subseteq Range(items)
    /\ \A g, h \in 1..Len(groups) :
        g # h => groupLayer(ch, groups[g]) # groupLayer(ch, groups[h])

(* the place in items of the first item of layer l *)
firstSeen(ch, items, l) ==
    CHOOSE i \in 1..Len(items) :
        /\ layerOf(ch, items[i]) = l
        /\ \A j \in 1..(i - 1) : layerOf(ch, items[j]) # l

(* C18 as claimed: the groups returned by _sortItemsByLayer are a partition  *)
(* of the input by owning layer, in the order in which the layers are first  *)
(* seen in the input.                                                        *)
C18_PartitionFirstSeen ==
    lastOp \in ZOrderCalls =>
        /\ partitionByLayer(pre, _items, groupsOfCall)
        /\ \A g, h \in 1..Len(groupsOfCall) :
            g < h => firstSeen(pre, _items, groupLayer(pre, groupsOfCall[g]))
                        < firstSeen(pre, _items, groupLayer(pre, groupsOfCall[h]))

(* C18 amended: the groups returned by _sortItemsByLayer are a partition of  *)
(* the input by owning layer, in ascending order of layer id.                *)
C18_PartitionByLayerId ==
    lastOp \in ZOrderCalls =>
        /\ partitionByLayer(pre, _items, groupsOfCall)
        /\ \A g, h \in 1..Len(groupsOfCall) :
            g < h => groupLayer(pre, groupsOfCall[g]) < groupLayer(pre, groupsOfCall[h])

(* a call on three items of two layers, the first of them of the layer with *)
(* the greater id                                                           *)
C18_Witness ==
    /\ lastOp \in ZOrderCalls
    /\ Len(_items) = 3
    /\ Len(groupsOfCall) = 2
    /\ layerOf(pre, _items[1]) = 2

(* C19: destroy() is called at most once on every widget the selection *)
(* created.                                                             *)
C19_DestroyedOnce ==
    \A w \in 1..Len(widgets) : widgets[w].destroyCalls <= 1

(* a run of n calls has brought layer l to the stacking `target` gives it, *)
(* and one more call `again` leaves the layer as it is                     *)
convergedIn(l, target, again) ==
    run.count >= Len(notSelectedOf(run.start, l)) =>
        /\ children[l] = target[l]
        /\ again[l] = children[l]

(* C20: after n moveForwards() calls in a row, every layer that held at most *)
(* n items that are not selected has the stacking one bringToFront() gives   *)
(* from where the run began, and another moveForwards() leaves it unchanged; *)
(* the same for moveBackwards() and sendToBack().                            *)
C20_StepsConverge ==
    /\ lastOp = "moveForwards" =>
        \A l \in Layers :
            convergedIn(l, bringToFront(run.start, _items), moveForwards(children, _items))
    /\ lastOp = "moveBackwards" =>
        \A l \in Layers :
            convergedIn(l, sendToBack(run.start, _items), moveBackwards(children, _items))

(* a run that needed every one of its calls: a layer with at least two      *)
(* selected items and as many items that are not selected as there were     *)
(* calls, at least two, still changed in the last call                      *)
C20_Witness ==
    /\ lastOp \in {"moveForwards", "moveBackwards"}
    /\ run.count >= 2
    /\ \E l \in Layers :
        /\ run.count = Len(notSelectedOf(run.start, l))
        /\ Len(selectedOf(run.start, l)) >= 2
        /\ children[l] # pre[l]

====
